---- MODULE Spec2Model ----
(***************************************************************************)
(* Model of the sqlset package: the line parser of .sql query-set files,   *)
(* the construction of an SQLSet from a file tree (New / handleDirEntry)   *)
(* and the read API of the SQLSet (Get, MustGet, GetSetsMetas,             *)
(* GetQueryIDs).                                                           *)
(*                                                                         *)
(* Go strings are modelled as sequences of one-character strings, so that  *)
(* prefix tests, trimming, cutting and lower-casing are computed the way   *)
(* the strings package computes them.                                      *)
(***************************************************************************)
EXTENDS Integers, Sequences, FiniteSets, TLC

\* ------------------------------------------------------------------------
\* Bounds of the model
\* ------------------------------------------------------------------------

\* number of directory entries the walk of one construction visits
MaxFiles == 2

\* number of lines the files of the walked tree have together
MaxLines == 4

\* length of the argument lists Get and MustGet are called with
MaxArgs == 3

\* number of lines of the file whose statement blocks repeat an ID
MaxBlockLines == 5

\* ------------------------------------------------------------------------
\* Constants of the parser (const block of the parser file)
\* ------------------------------------------------------------------------

maxCapacity == 1024

tokenPrefix == <<"-", "-">>

tokenKeySep == <<":">>

tokenComment == tokenPrefix

tokenSQL == <<"S", "Q", "L">>

tokenMeta == <<"M", "E", "T", "A">>

tokenEnd == <<"e", "n", "d">>

filesExt == <<".", "s", "q", "l">>

lineEnding == <<"\r", "\n">>

\* the empty Go string
EmptyStr == <<>>

\* ------------------------------------------------------------------------
\* The functions of package strings that the code calls
\* ------------------------------------------------------------------------

HasPrefix(s, prefix) ==
    /\ Len(s) >= Len(prefix)
    /\ SubSeq(s, 1, Len(prefix)) = prefix

HasSuffix(s, suffix) ==
    /\ Len(s) >= Len(suffix)
    /\ SubSeq(s, Len(s) - Len(suffix) + 1, Len(s)) = suffix

CutPrefix(s, prefix) ==
    IF HasPrefix(s, prefix)
    THEN [after |-> SubSeq(s, Len(prefix) + 1, Len(s)), found |-> TRUE]
    ELSE [after |-> s, found |-> FALSE]

CutSuffix(s, suffix) ==
    IF HasSuffix(s, suffix)
    THEN [before |-> SubSeq(s, 1, Len(s) - Len(suffix)), found |-> TRUE]
    ELSE [before |-> s, found |-> FALSE]

TrimSuffix(s, suffix) ==
    IF HasSuffix(s, suffix) THEN SubSeq(s, 1, Len(s) - Len(suffix)) ELSE s

IsSpace(c) == c \in {" ", "\t", "\r", "\n"}

TrimSpace(s) ==
    LET keep == {i \in 1..Len(s) : ~IsSpace(s[i])}
    IN  IF keep = {} THEN EmptyStr
        ELSE LET lo == CHOOSE i \in keep : \A j \in keep : i <= j
                 hi == CHOOSE i \in keep : \A j \in keep : j <= i
             IN  SubSeq(s, lo, hi)

LowerChar(c) ==
    CASE c = "A" -> "a"
      [] c = "B" -> "b"
      [] c = "L" -> "l"
      [] c = "Q" -> "q"
      [] c = "S" -> "s"
      [] OTHER -> c

ToLower(s) == [i \in 1..Len(s) |-> LowerChar(s[i])]

\* CutLast: Cut around the last occurrence of sep
CutLast(s, sep) ==
    LET at == {i \in 1..Len(s) : s[i] = sep}
    IN  IF at = {} THEN [before |-> s, after |-> EmptyStr, found |-> FALSE]
        ELSE LET i == CHOOSE k \in at : \A j \in at : j <= k
             IN  [before |-> SubSeq(s, 1, i - 1),
                  after |-> SubSeq(s, i + 1, Len(s)),
                  found |-> TRUE]

\* strings.Cut(s, sep) for a one-character separator: split around the
\* first occurrence of sep
Cut(s, sep) ==
    LET at == {i \in 1..Len(s) : s[i] = sep}
    IN  IF at = {} THEN [before |-> s, after |-> EmptyStr, found |-> FALSE]
        ELSE LET i == CHOOSE k \in at : \A j \in at : k <= j
             IN  [before |-> SubSeq(s, 1, i - 1),
                  after |-> SubSeq(s, i + 1, Len(s)),
                  found |-> TRUE]

\* ------------------------------------------------------------------------
\* Errors: an error value is the list of sentinels errors.Is finds in its
\* chain, the text that names the item, and the number formatted into it
\* ------------------------------------------------------------------------

NilErr == [nil |-> TRUE, chain |-> <<>>, msg |-> "", item |-> EmptyStr, nums |-> <<>>, path |-> <<>>]

\* chain: the sentinels errors.Is matches, outermost first; item: the
\* identifier formatted with %s; nums: the numbers formatted with %d;
\* path: the file paths the constructor prefixes
MkErr(chain, msg, item, nums) ==
    [nil |-> FALSE, chain |-> chain, msg |-> msg, item |-> item, nums |-> nums, path |-> <<>>]

ErrQuerySetsEmpty == MkErr(<<"ErrQuerySetsEmpty", "ErrEmpty">>, "query sets empty", EmptyStr, <<>>)

ErrQuerySetEmpty(item) == MkErr(<<"ErrQuerySetEmpty", "ErrEmpty">>, "query set empty", item, <<>>)

ErrQuerySetNotFound(item) == MkErr(<<"ErrQuerySetNotFound", "ErrNotFound">>, "query set not found", item, <<>>)

ErrQueryNotFound(item) == MkErr(<<"ErrQueryNotFound", "ErrNotFound">>, "query not found", item, <<>>)

ErrInvalidSyntax(msg, nums) == MkErr(<<"ErrInvalidSyntax">>, msg, EmptyStr, nums)

ErrMaxLineLenExceeded(nums) == MkErr(<<"ErrMaxLineLenExceeded">>, "line too long, possible line corruption", EmptyStr, nums)

\* errors.Is(err, target)
ErrorIs(err, target) == \E i \in 1..Len(err.chain) : err.chain[i] = target

\* ------------------------------------------------------------------------
\* Tokenizer
\* ------------------------------------------------------------------------

\* the token "" detectToken returns for a line that is no directive
tokenNone == EmptyStr

\* detectTokenAnyKey: the key of an SQL token is not tested
detectTokenAnyKey(line) ==
    LET pre == CutPrefix(line, tokenPrefix)
        sql == CutPrefix(pre.after, tokenSQL \o tokenKeySep)
        key == TrimSpace(sql.after)
    IN  IF ~pre.found
        THEN [token |-> tokenNone, key |-> EmptyStr, err |-> NilErr]
        ELSE IF sql.found
        THEN [token |-> tokenSQL, key |-> key, err |-> NilErr]
        ELSE IF HasPrefix(pre.after, tokenMeta)
        THEN [token |-> tokenMeta, key |-> EmptyStr, err |-> NilErr]
        ELSE IF HasPrefix(pre.after, tokenEnd)
        THEN [token |-> tokenEnd, key |-> EmptyStr, err |-> NilErr]
        ELSE [token |-> tokenComment, key |-> EmptyStr, err |-> NilErr]

\* detectTokenExact: META and end are tokens only as the whole text after
\* the prefix
detectTokenExact(line) ==
    LET pre == CutPrefix(line, tokenPrefix)
        sql == CutPrefix(pre.after, tokenSQL \o tokenKeySep)
        key == TrimSpace(sql.after)
    IN  IF ~pre.found
        THEN [token |-> tokenNone, key |-> EmptyStr, err |-> NilErr]
        ELSE IF sql.found
        THEN IF key = EmptyStr
             THEN [token |-> tokenNone, key |-> EmptyStr,
                   err |-> ErrInvalidSyntax("no SQL set query key given", <<>>)]
             ELSE [token |-> tokenSQL, key |-> key, err |-> NilErr]
        ELSE IF pre.after = tokenMeta
        THEN [token |-> tokenMeta, key |-> EmptyStr, err |-> NilErr]
        ELSE IF pre.after = tokenEnd
        THEN [token |-> tokenEnd, key |-> EmptyStr, err |-> NilErr]
        ELSE [token |-> tokenComment, key |-> EmptyStr, err |-> NilErr]

detectToken(line) ==
    LET pre == CutPrefix(line, tokenPrefix)
        sql == CutPrefix(pre.after, tokenSQL \o tokenKeySep)
        key == TrimSpace(sql.after)
    IN  IF ~pre.found
        THEN [token |-> tokenNone, key |-> EmptyStr, err |-> NilErr]
        ELSE IF sql.found
        THEN IF key = EmptyStr
             THEN [token |-> tokenNone, key |-> EmptyStr,
                   err |-> ErrInvalidSyntax("no SQL set query key given", <<>>)]
             ELSE [token |-> tokenSQL, key |-> key, err |-> NilErr]
        ELSE IF HasPrefix(pre.after, tokenMeta)
        THEN [token |-> tokenMeta, key |-> EmptyStr, err |-> NilErr]
        ELSE IF HasPrefix(pre.after, tokenEnd)
        THEN [token |-> tokenEnd, key |-> EmptyStr, err |-> NilErr]
        ELSE [token |-> tokenComment, key |-> EmptyStr, err |-> NilErr]

\* ------------------------------------------------------------------------
\* Query sets
\* ------------------------------------------------------------------------

\* a Go map is a function; the nil map and the map without keys have the
\* same (empty) domain: registerQuery and registerQuerySet make the map on
\* the first insertion and nothing deletes a key
EmptyMap == <<>>

IsNilMap(m) == DOMAIN m = {}

MapPut(m, k, v) == [x \in DOMAIN m \cup {k} |-> IF x = k THEN v ELSE m[x]]

ZeroMeta == [ID |-> EmptyStr, Name |-> EmptyStr, Description |-> EmptyStr]

ZeroQuerySet == [meta |-> ZeroMeta, queries |-> EmptyMap]

GetMeta(qs) == qs.meta

\* registerQueryKeepFirst: the text of an ID that is registered stays
registerQueryKeepFirst(qs, id, query) ==
    IF id \in DOMAIN qs.queries THEN qs
    ELSE [qs EXCEPT !.queries = MapPut(qs.queries, id, query)]

registerQuery(qs, id, query) == [qs EXCEPT !.queries = MapPut(qs.queries, id, query)]

\* registerQuerySetMerge: a query set registered under a key that is
\* taken keeps the statements of the one before that it does not replace
registerQuerySetMerge(s, setID, qs) ==
    IF setID \in DOMAIN s
    THEN MapPut(s, setID,
                [qs EXCEPT !.queries =
                    [id \in DOMAIN s[setID].queries \cup DOMAIN qs.queries |->
                        IF id \in DOMAIN qs.queries THEN qs.queries[id]
                        ELSE s[setID].queries[id]]])
    ELSE MapPut(s, setID, qs)

registerQuerySet(s, setID, qs) == MapPut(s, setID, qs)

\* ------------------------------------------------------------------------
\* Metadata
\* ------------------------------------------------------------------------

\* the metadata payload {"id":"b"}
JsonIdB == <<"{", "\"", "i", "d", "\"", ":", "\"", "b", "\"", "}">>

\* the metadata payload {}
JsonEmptyObject == <<"{", "}">>

\* a JSON string and a member "name":"val" of a JSON object
JsonString(str) == <<"\"">> \o str \o <<"\"">>

JsonMember(name, val) == JsonString(name) \o <<":">> \o JsonString(val)

\* the JSON object of the members, in their order
RECURSIVE JsonMembers(_)
JsonMembers(members) ==
    IF Len(members) = 0 THEN EmptyStr
    ELSE IF Len(members) = 1 THEN members[1]
    ELSE members[1] \o <<",">> \o JsonMembers(Tail(members))

JsonObject(members) == <<"{">> \o JsonMembers(members) \o <<"}">>

\* a member of the payload: absent (no value), or present with its value
Absent == <<>>

Present(val) == <<val>>

\* the value a string field of QuerySetMeta has after json.Unmarshal
Decoded(member) == IF member = Absent THEN EmptyStr ELSE member[1]

\* the payload with the members "id", "name" and "description"
JsonMeta(id, name, description) ==
    JsonObject((IF id = Absent THEN <<>> ELSE <<JsonMember(<<"i", "d">>, id[1])>>)
               \o (IF name = Absent THEN <<>> ELSE <<JsonMember(<<"n", "a", "m", "e">>, name[1])>>)
               \o (IF description = Absent THEN <<>>
                   ELSE <<JsonMember(<<"d", "e", "s", "c", "r", "i", "p", "t", "i", "o", "n">>,
                                     description[1])>>))

\* the values of the members of the payloads of the model
MetaIDs == {Absent, Present(EmptyStr), Present(<<"b">>)}

MetaNames == {Absent, Present(<<"n">>)}

MetaDescriptions == {Absent, Present(<<"d">>)}

\* the JSON documents of the model and the fields each decodes to
JsonDocs ==
    { [text |-> JsonMeta(id, name, description), ID |-> Decoded(id),
       Name |-> Decoded(name), Description |-> Decoded(description)] :
      id \in MetaIDs, name \in MetaNames, description \in MetaDescriptions }

\* json.Unmarshal(jsonData, &parsed): white space around the one top-level
\* value is skipped; no value, text that is no JSON and text after the value
\* are errors
jsonUnmarshal(jsonData) ==
    LET NotSpace(c) == ~IsSpace(c)
        text == SelectSeq(jsonData, NotSpace)
    IN  IF \E d \in JsonDocs : d.text = text
        THEN LET d == CHOOSE d \in JsonDocs : d.text = text
             IN  [err |-> FALSE,
                  parsed |-> [ID |-> d.ID, Name |-> d.Name, Description |-> d.Description]]
        ELSE [err |-> TRUE, parsed |-> ZeroMeta]

\* a []byte: nil, or the bytes
NilBytes == [nil |-> TRUE, data |-> EmptyStr]

\* BytesNilWhenEmpty: a conversion that yields nil for the empty string
BytesNilWhenEmpty(data) == [nil |-> data = EmptyStr, data |-> data]

Bytes(data) == [nil |-> FALSE, data |-> data]

\* parseMetaIgnoreError: the error of json.Unmarshal is dropped
parseMetaIgnoreError(setID, jsonData) ==
    LET meta == [ID |-> setID, Name |-> setID, Description |-> EmptyStr]
        dec == jsonUnmarshal(jsonData.data)
    IN  IF jsonData.nil
        THEN [meta |-> meta, err |-> NilErr]
        ELSE [meta |-> [ID |-> IF dec.parsed.ID # EmptyStr THEN dec.parsed.ID ELSE meta.ID,
                        Name |-> IF dec.parsed.Name # EmptyStr THEN dec.parsed.Name ELSE meta.Name,
                        Description |-> dec.parsed.Description],
              err |-> NilErr]

\* parseMetaDescriptionDefault: a description that falls back to the name
parseMetaDescriptionDefault(setID, jsonData) ==
    LET meta == [ID |-> setID, Name |-> setID, Description |-> EmptyStr]
        dec == jsonUnmarshal(jsonData.data)
    IN  IF jsonData.nil
        THEN [meta |-> meta, err |-> NilErr]
        ELSE IF dec.err
        THEN [meta |-> ZeroMeta, err |-> ErrInvalidSyntax("json", <<>>)]
        ELSE LET name == IF dec.parsed.Name # EmptyStr THEN dec.parsed.Name ELSE meta.Name
             IN  [meta |-> [ID |-> IF dec.parsed.ID # EmptyStr THEN dec.parsed.ID ELSE meta.ID,
                            Name |-> name,
                            Description |-> IF dec.parsed.Description # EmptyStr
                                            THEN dec.parsed.Description ELSE name],
                  err |-> NilErr]

parseMeta(setID, jsonData) ==
    LET meta == [ID |-> setID, Name |-> setID, Description |-> EmptyStr]
        dec == jsonUnmarshal(jsonData.data)
    IN  IF jsonData.nil
        THEN [meta |-> meta, err |-> NilErr]
        ELSE IF dec.err
        THEN [meta |-> ZeroMeta, err |-> ErrInvalidSyntax("json", <<>>)]
        ELSE [meta |-> [ID |-> IF dec.parsed.ID # EmptyStr THEN dec.parsed.ID ELSE meta.ID,
                        Name |-> IF dec.parsed.Name # EmptyStr THEN dec.parsed.Name ELSE meta.Name,
                        Description |-> dec.parsed.Description],
              err |-> NilErr]

\* ------------------------------------------------------------------------
\* Block parser: the local variables of parse and one pass of its loop
\* ------------------------------------------------------------------------

\* openedToken == nil
NoToken == [open |-> FALSE, Type |-> tokenNone, Key |-> EmptyStr, Content |-> EmptyStr]

OpenToken(type, key) == [open |-> TRUE, Type |-> type, Key |-> key, Content |-> EmptyStr]

\* the variables of parse before the first line
ParseStart ==
    [openedToken |-> NoToken, lineN |-> 0, metaBuf |-> NilBytes,
     qs |-> ZeroQuerySet, err |-> NilErr]

\* parse returns QuerySet{} and the error err
ParseFail(ps, lineN, err) == [ps EXCEPT !.lineN = lineN, !.qs = ZeroQuerySet, !.err = err]

\* scanUnbounded: a scanner whose buffer grows with the line
scanUnbounded(raw) == FALSE

\* bufio.Scanner with a buffer of maxCapacity bytes: a line, its terminator
\* not counted, that fills the buffer is no token
scanTooLong(raw) == Len(raw) >= maxCapacity

\* an open-block token arrives while a block is open
\* nestedOpenSameType: only a token of the type of the open block is refused
nestedOpenSameType(opened, token) ==
    opened.open /\ (token = tokenSQL \/ token = tokenMeta) /\ token = opened.Type

nestedOpen(opened, token) ==
    opened.open /\ (token = tokenSQL \/ token = tokenMeta)

\* blankLineKept: a line that is empty after TrimSpace is not skipped
blankLineKept(line) == FALSE

\* the line is empty after TrimSpace: the loop continues with the next
blankLine(line) == Len(line) = 0

\* endIgnored: an end token with no block open is skipped
endIgnored(opened) == FALSE

\* an end token arrives while no block is open
endWithoutOpen(opened) == ~opened.open

\* contentLineBare: the line is written without a line ending
contentLineBare(line) == line

\* what a line of the body adds to the Content of the open block
contentLine(line) == line \o lineEnding

\* one pass of the loop of parse: scanner.Scan() yields the line raw
parseLine(ps, raw) ==
    LET lineN == ps.lineN + 1
        line == TrimSpace(raw)
        det == detectToken(line)
        token == det.token
        opened == ps.openedToken
    IN  IF scanTooLong(raw)
        THEN ParseFail(ps, ps.lineN, ErrMaxLineLenExceeded(<<ps.lineN + 1>>))
        ELSE IF blankLine(line)
        THEN [ps EXCEPT !.lineN = lineN]
        ELSE IF ~det.err.nil
        THEN ParseFail(ps, lineN, [det.err EXCEPT !.nums = <<lineN>>])
        ELSE IF nestedOpen(opened, token)
        THEN ParseFail(ps, lineN,
                       MkErr(<<"ErrInvalidSyntax">>, "unexpected token inside block",
                             token \o <<" ">> \o opened.Type, <<lineN>>))
        ELSE IF token = tokenComment
        THEN [ps EXCEPT !.lineN = lineN]
        ELSE IF token = tokenSQL
        THEN [ps EXCEPT !.lineN = lineN, !.openedToken = OpenToken(tokenSQL, det.key)]
        ELSE IF token = tokenMeta
        THEN IF ~ps.metaBuf.nil
             THEN ParseFail(ps, lineN, ErrInvalidSyntax("unexpected multiple metadata", <<lineN>>))
             ELSE [ps EXCEPT !.lineN = lineN, !.openedToken = OpenToken(tokenMeta, EmptyStr)]
        ELSE IF token = tokenEnd
        THEN IF endWithoutOpen(opened)
             THEN ParseFail(ps, lineN, ErrInvalidSyntax("unexpected end token", <<lineN>>))
             ELSE IF opened.Type = tokenSQL
             THEN [ps EXCEPT !.lineN = lineN,
                             !.qs = registerQuery(ps.qs, opened.Key,
                                                  TrimSuffix(opened.Content, lineEnding)),
                             !.openedToken = NoToken]
             ELSE IF opened.Type = tokenMeta
             THEN [ps EXCEPT !.lineN = lineN,
                             !.metaBuf = Bytes(opened.Content),
                             !.openedToken = NoToken]
             ELSE [ps EXCEPT !.lineN = lineN, !.openedToken = NoToken]
        ELSE IF ~opened.open
        THEN [ps EXCEPT !.lineN = lineN]
        ELSE [ps EXCEPT !.lineN = lineN,
                        !.openedToken.Content = opened.Content \o contentLine(line)]

\* parseEndNoOpenCheck: the end of parse without the test of openedToken
parseEndNoOpenCheck(setID, ps) ==
    LET m == parseMeta(setID, ps.metaBuf)
    IN  IF ~m.err.nil
        THEN [qs |-> ps.qs, err |-> m.err]
        ELSE [qs |-> [ps.qs EXCEPT !.meta = m.meta], err |-> NilErr]

\* the loop of parse over the lines, from the variables ps, up to the
\* first error
RECURSIVE parseLines(_, _)
parseLines(ps, lines) ==
    IF Len(lines) = 0 \/ ~ps.err.nil THEN ps
    ELSE parseLines(parseLine(ps, lines[1]), Tail(lines))

\* the end of parse, after scanner.Scan() returned false without an error
parseEnd(setID, ps) ==
    LET m == parseMeta(setID, ps.metaBuf)
    IN  IF ps.openedToken.open
        THEN [qs |-> ZeroQuerySet,
              err |-> MkErr(<<"ErrInvalidSyntax">>, "no closing tag found",
                            ps.openedToken.Key, <<>>)]
        ELSE IF ~m.err.nil
        THEN [qs |-> ps.qs, err |-> m.err]
        ELSE [qs |-> [ps.qs EXCEPT !.meta = m.meta], err |-> NilErr]

\* ------------------------------------------------------------------------
\* The read API of SQLSet
\* ------------------------------------------------------------------------

\* the one-character separator of Get("setID.queryID")
idSep == "."

\* fmt.Errorf without %w: an error no sentinel matches
PlainErr(msg, nums) == MkErr(<<>>, msg, EmptyStr, nums)

\* qsFindQueryZeroValue: findQuery that does not test ok after
\* qs.queries[id]
qsFindQueryZeroValue(qs, id) ==
    IF IsNilMap(qs.queries)
    THEN [q |-> EmptyStr, err |-> ErrQuerySetEmpty(qs.meta.ID)]
    ELSE IF id \notin DOMAIN qs.queries
    THEN [q |-> EmptyStr, err |-> NilErr]
    ELSE [q |-> qs.queries[id], err |-> NilErr]

\* (*QuerySet).findQuery
qsFindQuery(qs, id) ==
    IF IsNilMap(qs.queries)
    THEN [q |-> EmptyStr, err |-> ErrQuerySetEmpty(qs.meta.ID)]
    ELSE IF id \notin DOMAIN qs.queries
    THEN [q |-> EmptyStr, err |-> ErrQueryNotFound(id)]
    ELSE [q |-> qs.queries[id], err |-> NilErr]

\* for _, v := range s.sets { qs = v; break }: the query set the range
\* yields first, QuerySet{} when there is none
FirstOf(s) ==
    IF DOMAIN s = {} THEN ZeroQuerySet ELSE s[CHOOSE k \in DOMAIN s : TRUE]

\* findQueryNoEmptyCheck: findQuery without the test of s.sets == nil
findQueryNoEmptyCheck(s, ids) ==
    IF Len(ids) = 1
    THEN IF Cardinality(DOMAIN s) > 1
         THEN [q |-> EmptyStr, err |-> PlainErr("query set not specified", <<>>)]
         ELSE qsFindQuery(FirstOf(s), ids[1])
    ELSE IF Len(ids) = 2
    THEN IF ids[1] \notin DOMAIN s
         THEN [q |-> EmptyStr, err |-> ErrQuerySetNotFound(ids[1])]
         ELSE qsFindQuery(s[ids[1]], ids[2])
    ELSE [q |-> EmptyStr, err |-> PlainErr("invalid number of arguments", <<Len(ids)>>)]

\* findQueryAnySet: findQuery that does not test ok after s.sets[ids[0]]
findQueryAnySet(s, ids) ==
    IF IsNilMap(s)
    THEN [q |-> EmptyStr, err |-> ErrQuerySetsEmpty]
    ELSE IF Len(ids) = 1
    THEN IF Cardinality(DOMAIN s) > 1
         THEN [q |-> EmptyStr, err |-> PlainErr("query set not specified", <<>>)]
         ELSE qsFindQuery(FirstOf(s), ids[1])
    ELSE IF Len(ids) = 2
    THEN qsFindQuery(IF ids[1] \in DOMAIN s THEN s[ids[1]] ELSE ZeroQuerySet, ids[2])
    ELSE [q |-> EmptyStr, err |-> PlainErr("invalid number of arguments", <<Len(ids)>>)]

\* (*SQLSet).findQuery
findQuery(s, ids) ==
    IF IsNilMap(s)
    THEN [q |-> EmptyStr, err |-> ErrQuerySetsEmpty]
    ELSE IF Len(ids) = 1
    THEN IF Cardinality(DOMAIN s) > 1
         THEN [q |-> EmptyStr, err |-> PlainErr("query set not specified", <<>>)]
         ELSE qsFindQuery(FirstOf(s), ids[1])
    ELSE IF Len(ids) = 2
    THEN IF ids[1] \notin DOMAIN s
         THEN [q |-> EmptyStr, err |-> ErrQuerySetNotFound(ids[1])]
         ELSE qsFindQuery(s[ids[1]], ids[2])
    ELSE [q |-> EmptyStr, err |-> PlainErr("invalid number of arguments", <<Len(ids)>>)]

\* (*SQLSet).Get
Get(s, ids) ==
    LET empty == {i \in 1..Len(ids) : ids[i] = EmptyStr}
        first == CHOOSE i \in empty : \A j \in empty : i <= j
        l == Len(ids)
        cut == Cut(ids[1], idSep)
    IN  IF empty # {}
        THEN [q |-> EmptyStr, err |-> PlainErr("empty argument", <<first - 1>>)]
        ELSE IF l = 0 \/ l > 2
        THEN [q |-> EmptyStr, err |-> PlainErr("invalid number of arguments", <<l>>)]
        ELSE IF l = 1 /\ cut.found
        THEN findQuery(s, <<cut.before, cut.after>>)
        ELSE findQuery(s, ids)

\* MustGetNoPanic: MustGet that returns the empty text of a failed Get
MustGetNoPanic(s, ids) ==
    LET r == Get(s, ids)
    IN  [q |-> r.q, err |-> NilErr, panic |-> FALSE]

\* (*SQLSet).MustGet: panic is TRUE when the call panics with err
MustGet(s, ids) ==
    LET r == Get(s, ids)
    IN  IF ~r.err.nil
        THEN [q |-> EmptyStr, err |-> r.err, panic |-> TRUE]
        ELSE [q |-> r.q, err |-> NilErr, panic |-> FALSE]

\* the byte value of a character
Ord(c) ==
    CASE c = "\t" -> 9
      [] c = "\n" -> 10
      [] c = "\r" -> 13
      [] c = " " -> 32
      [] c = "\"" -> 34
      [] c = "-" -> 45
      [] c = "." -> 46
      [] c = ":" -> 58
      [] c = "A" -> 65
      [] c = "B" -> 66
      [] c = "E" -> 69
      [] c = "L" -> 76
      [] c = "M" -> 77
      [] c = "Q" -> 81
      [] c = "S" -> 83
      [] c = "T" -> 84
      [] c = "a" -> 97
      [] c = "b" -> 98
      [] c = "c" -> 99
      [] c = "d" -> 100
      [] c = "e" -> 101
      [] c = "i" -> 105
      [] c = "n" -> 110
      [] c = "x" -> 120
      [] c = "y" -> 121
      [] c = "{" -> 123
      [] c = "}" -> 125

\* a < b for Go strings: byte-wise lexical order
StrLess(a, b) ==
    \E i \in 1..(Len(b)) :
        /\ \A j \in 1..(i - 1) : j <= Len(a) /\ a[j] = b[j]
        /\ \/ i = Len(a) + 1
           \/ i <= Len(a) /\ Ord(a[i]) < Ord(b[i])

\* SortStringsDescending: the keys from the greatest to the least
RECURSIVE SortStringsDescending(_)
SortStringsDescending(keys) ==
    IF keys = {} THEN <<>>
    ELSE LET max == CHOOSE k \in keys : \A o \in keys \ {k} : StrLess(o, k)
         IN  <<max>> \o SortStringsDescending(keys \ {max})

\* sort.Strings over the keys of a map
RECURSIVE SortStrings(_)
SortStrings(keys) ==
    IF keys = {} THEN <<>>
    ELSE LET min == CHOOSE k \in keys : \A o \in keys \ {k} : StrLess(k, o)
         IN  <<min>> \o SortStrings(keys \ {min})

\* (*SQLSet).GetQueryIDs: nil is TRUE for the nil slice
GetQueryIDs(s, setID) ==
    IF IsNilMap(s) \/ setID \notin DOMAIN s
    THEN [nil |-> TRUE, ids |-> <<>>, err |-> ErrQuerySetNotFound(setID)]
    ELSE IF IsNilMap(s[setID].queries)
    THEN [nil |-> FALSE, ids |-> <<>>, err |-> NilErr]
    ELSE [nil |-> FALSE, ids |-> SortStrings(DOMAIN s[setID].queries), err |-> NilErr]

\* (*SQLSet).GetSetsMetas: the slices the call can return, one for every
\* order in which the map can be ranged over
GetSetsMetas(s) ==
    LET n == Cardinality(DOMAIN s)
        orders == {o \in [1..n -> DOMAIN s] : \A i, j \in 1..n : o[i] = o[j] => i = j}
    IN  {[i \in 1..n |-> GetMeta(s[o[i]])] : o \in orders}

\* ------------------------------------------------------------------------
\* Inputs
\* ------------------------------------------------------------------------

\* the names of the directory entries of the walked tree; entries of
\* different directories can have the same name
Names ==
    { <<"a", ".", "s", "q", "l">>,
      <<"B", ".", "S", "Q", "L">>,
      <<".", "s", "q", "l">>,
      <<"a", ".", "t", "x", "t">> }

\* a line of text and a line of blanks, each one byte longer than
\* maxCapacity
LongLine == [i \in 1..(maxCapacity + 1) |-> "x"]

LongBlankLine == [i \in 1..(maxCapacity + 1) |-> " "]

\* the lines of the walked files, as the scanner yields them
Lines ==
    { LongLine,
      LongBlankLine,
      <<" ">>,
      <<"-", "-", "S", "Q", "L", ":", "a">>,
      <<"-", "-", "S", "Q", "L", ":", " ", "b">>,
      <<"-", "-", "S", "Q", "L", ":">>,
      <<"-", "-", "M", "E", "T", "A">>,
      <<"-", "-", "e", "n", "d">>,
      <<"-", "-", "c">>,
      <<"x">>,
      JsonIdB }

\* the identifiers the read API is called with
ArgIDs ==
    { EmptyStr,
      <<"a">>,
      <<"b">>,
      <<"b", ".", "a">>,
      <<".", "a">>,
      <<"a", ".">>,
      <<"b", ".", "a", ".", "b">> }

\* the identifiers of the argument lists longer than two
LongArgIDs == {EmptyStr, <<"a">>}

ArgLists ==
    UNION {[1..n -> IF n <= 2 THEN ArgIDs ELSE LongArgIDs] : n \in 0..MaxArgs}

\* ------------------------------------------------------------------------
\* State
\* ------------------------------------------------------------------------

VARIABLES
    pc,       \* "walk": New walks the tree; "scan": parse reads a file;
              \* "ready": New returned the SQLSet; "failed": New returned nil
    sets,     \* SQLSet.sets of the SQLSet under construction
    visited,  \* number of directory entries the walk has visited
    scanned,  \* number of lines the scanner has read from the files so far
    setID,    \* parse: the set ID derived from the name of the file
    path,     \* parse: the path of the file
    ps,       \* parse: its local variables
    newErr,   \* the error New returned
    last,     \* the last call of the read API and what it returned
    built,    \* SQLSet.sets as it was when New returned the SQLSet
    src,      \* parse: the lines scanner.Scan() has yielded so far, kept
              \* only by the specification of a single parse
    registered \* New: the keys registerQuerySet was called with, in order

vars == <<pc, sets, visited, scanned, setID, path, ps, newErr, last, built, src, registered>>

NoCall ==
    [op |-> "none", ids |-> <<>>, q |-> EmptyStr, err |-> NilErr, panic |-> FALSE,
     nil |-> FALSE, list |-> <<>>]

Init ==
    /\ pc = "walk"
    /\ sets = EmptyMap
    /\ visited = 0
    /\ scanned = 0
    /\ setID = EmptyStr
    /\ path = EmptyStr
    /\ ps = ParseStart
    /\ newErr = NilErr
    /\ last = NoCall
    /\ built = EmptyMap
    /\ src = <<>>
    /\ registered = <<>>

\* NewFailsPartial: New returns the SQLSet built so far with the error
NewFailsPartial(err) ==
    /\ pc' = "ready"
    /\ newErr' = err
    /\ sets' = sets
    /\ setID' = EmptyStr
    /\ path' = EmptyStr

\* New returns nil and the error wrapped with "failed build SQL set"; the
\* SQLSet under construction and the local variables of parse are dropped
NewFails(err) ==
    /\ pc' = "failed"
    /\ newErr' = err
    /\ sets' = EmptyMap
    /\ setID' = EmptyStr
    /\ path' = EmptyStr

\* ------------------------------------------------------------------------
\* Construction: New, handleDirEntry, parse
\* ------------------------------------------------------------------------

\* fs.WalkDir reports an error for the entry: the callback returns it
WalkError(name) ==
    /\ pc = "walk"
    /\ visited < MaxFiles
    /\ visited' = visited + 1
    /\ NewFails([PlainErr("walk", <<>>) EXCEPT !.path = name])
    /\ UNCHANGED <<scanned, ps, last, built, src, registered>>

\* handleDirEntry for a directory
WalkDirectory(name) ==
    /\ pc = "walk"
    /\ visited < MaxFiles
    /\ visited' = visited + 1
    /\ UNCHANGED <<pc, sets, scanned, setID, path, ps, newErr, last, built, src, registered>>

\* handleDirEntry for a file whose name does not end in filesExt
WalkOtherFile(name) ==
    /\ pc = "walk"
    /\ visited < MaxFiles
    /\ ~CutSuffix(ToLower(name), filesExt).found
    /\ visited' = visited + 1
    /\ UNCHANGED <<pc, sets, scanned, setID, path, ps, newErr, last, built, src, registered>>

\* handleDirEntry for a file whose name ends in filesExt, up to the call
\* of parse; fsys.Open fails when openFails
WalkSqlFile(name, openFails) ==
    LET cut == CutSuffix(ToLower(name), filesExt)
    IN  /\ pc = "walk"
        /\ visited < MaxFiles
        /\ cut.found
        /\ visited' = visited + 1
        /\ UNCHANGED <<built, src, registered>>
        /\ IF openFails
           THEN /\ NewFails([PlainErr("open", <<>>) EXCEPT !.path = name])
                /\ UNCHANGED <<scanned, ps, last>>
           ELSE /\ pc' = "scan"
                /\ setID' = cut.before
                /\ path' = name
                /\ ps' = ParseStart
                /\ UNCHANGED <<sets, scanned, newErr, last>>

\* parse: scanner.Scan() yields one more line, of a tree of limit lines
ScanStepWithin(raw, limit) ==
    LET next == parseLine(ps, raw)
    IN  /\ pc = "scan"
        /\ scanned < limit
        /\ scanned' = scanned + 1
        /\ IF ~next.err.nil
           THEN /\ NewFails([next.err EXCEPT !.path = path])
                /\ ps' = ParseStart
           ELSE /\ ps' = next
                /\ UNCHANGED <<pc, newErr, sets, setID, path>>
        /\ UNCHANGED <<visited, last, built, registered>>

\* parse: scanner.Scan() yields one more line
ScanStep(raw) == ScanStepWithin(raw, MaxLines)

\* one pass of the loop of parse during a construction
ScanLine(raw) == ScanStep(raw) /\ UNCHANGED src

\* one pass of the loop of parse, the line kept in src
ReadLine(raw) == ScanStep(raw) /\ src' = Append(src, raw)

\* one pass of the loop of parse over the file whose blocks repeat an ID,
\* the line kept in src
ReadBlockLine(raw) == ScanStepWithin(raw, MaxBlockLines) /\ src' = Append(src, raw)

\* parse: scanner.Scan() fails to read the file
ScanReadError ==
    /\ pc = "scan"
    /\ NewFails([PlainErr("scanning error", <<>>) EXCEPT !.path = path])
    /\ ps' = ParseStart
    /\ UNCHANGED <<visited, scanned, last, built, src, registered>>

\* registryKeyFromName: the query set is registered under the ID derived
\* from the name of the file
registryKeyFromName(id, qs) == id

\* the key handleDirEntry registers the parsed query set under
registryKey(id, qs) == GetMeta(qs).ID

\* parse: the input is exhausted; handleDirEntry registers the query set
\* and returns, which ends the life of the local variables of both
ScanEOF ==
    LET res == parseEnd(setID, ps)
    IN  /\ pc = "scan"
        /\ IF ~res.err.nil
           THEN /\ NewFails([res.err EXCEPT !.path = path])
                /\ ps' = ParseStart
                /\ UNCHANGED registered
           ELSE /\ sets' = registerQuerySet(sets, registryKey(setID, res.qs), res.qs)
                /\ registered' = Append(registered, registryKey(setID, res.qs))
                /\ pc' = "walk"
                /\ ps' = ParseStart
                /\ setID' = EmptyStr
                /\ path' = EmptyStr
                /\ UNCHANGED newErr
        /\ UNCHANGED <<visited, scanned, last, built, src>>

\* fs.WalkDir has visited every entry: New returns the SQLSet
NewReturns ==
    /\ pc = "walk"
    /\ pc' = "ready"
    /\ built' = sets
    /\ registered' = <<>>
    /\ UNCHANGED <<sets, visited, scanned, setID, path, ps, newErr, last, src>>

\* ------------------------------------------------------------------------
\* Calls of the read API on the SQLSet New returned
\* ------------------------------------------------------------------------

\* CallGetVivify: a Get that leaves an empty query set under the set ID
\* it did not find
CallGetVivify(ids) ==
    LET r == Get(sets, ids)
    IN  /\ pc = "ready"
        /\ last = NoCall
        /\ last' = [NoCall EXCEPT !.op = "Get", !.ids = ids, !.q = r.q, !.err = r.err]
        /\ sets' = IF Len(ids) = 2 /\ ErrorIs(r.err, "ErrQuerySetNotFound")
                   THEN registerQuerySet(sets, ids[1], ZeroQuerySet)
                   ELSE sets
        /\ UNCHANGED <<pc, visited, scanned, setID, path, ps, newErr, built, src, registered>>

CallGet(ids) ==
    LET r == Get(sets, ids)
    IN  /\ pc = "ready"
        /\ last = NoCall
        /\ last' = [NoCall EXCEPT !.op = "Get", !.ids = ids, !.q = r.q, !.err = r.err]
        /\ UNCHANGED <<pc, sets, visited, scanned, setID, path, ps, newErr, built, src, registered>>

CallMustGet(ids) ==
    LET r == MustGet(sets, ids)
    IN  /\ pc = "ready"
        /\ last = NoCall
        /\ last' = [NoCall EXCEPT !.op = "MustGet", !.ids = ids, !.q = r.q,
                                  !.err = r.err, !.panic = r.panic]
        /\ UNCHANGED <<pc, sets, visited, scanned, setID, path, ps, newErr, built, src, registered>>

CallGetQueryIDs(id) ==
    LET r == GetQueryIDs(sets, id)
    IN  /\ pc = "ready"
        /\ last = NoCall
        /\ last' = [NoCall EXCEPT !.op = "GetQueryIDs", !.ids = <<id>>, !.err = r.err,
                                  !.nil = r.nil, !.list = r.ids]
        /\ UNCHANGED <<pc, sets, visited, scanned, setID, path, ps, newErr, built, src, registered>>

CallGetSetsMetas ==
    /\ pc = "ready"
    /\ last = NoCall
    /\ \E metas \in GetSetsMetas(sets) :
           last' = [NoCall EXCEPT !.op = "GetSetsMetas", !.list = metas]
    /\ UNCHANGED <<pc, sets, visited, scanned, setID, path, ps, newErr, built, src, registered>>

\* the caller is done with what the call returned
CallerDone ==
    /\ pc = "ready"
    /\ last # NoCall
    /\ last' = NoCall
    /\ UNCHANGED <<pc, sets, visited, scanned, setID, path, ps, newErr, built, src, registered>>

Next ==
    \/ \E name \in Names : WalkError(name)
    \/ \E name \in Names : WalkDirectory(name)
    \/ \E name \in Names : WalkOtherFile(name)
    \/ \E name \in Names, openFails \in BOOLEAN : WalkSqlFile(name, openFails)
    \/ \E raw \in Lines : ScanLine(raw)
    \/ ScanReadError
    \/ ScanEOF
    \/ NewReturns
    \/ \E ids \in ArgLists : CallGet(ids)
    \/ \E ids \in ArgLists : CallMustGet(ids)
    \/ \E id \in ArgIDs : CallGetQueryIDs(id)
    \/ CallGetSetsMetas
    \/ CallerDone

Spec == Init /\ [][Next]_vars

\* ------------------------------------------------------------------------
\* The parse of one file
\* ------------------------------------------------------------------------

\* handleDirEntry has opened the first file of the tree and calls parse
InitParse ==
    /\ pc = "scan"
    /\ sets = EmptyMap
    /\ visited = 1
    /\ scanned = 0
    /\ \E name \in Names :
           /\ CutSuffix(ToLower(name), filesExt).found
           /\ setID = CutSuffix(ToLower(name), filesExt).before
           /\ path = name
    /\ ps = ParseStart
    /\ newErr = NilErr
    /\ last = NoCall
    /\ built = EmptyMap
    /\ src = <<>>
    /\ registered = <<>>

\* the lines of a file with a metadata block: the directives, the payloads
\* and a line that is no JSON
MetaLines ==
    { <<"-", "-", "M", "E", "T", "A">>,
      <<"-", "-", "e", "n", "d">>,
      <<"x">> } \cup {d.text : d \in JsonDocs}

NextMeta ==
    \/ \E raw \in MetaLines : ScanLine(raw)
    \/ ScanEOF

SpecMeta == InitParse /\ [][NextMeta]_vars

\* the lines of a file with statement blocks: blank, the directives, a
\* comment, and text with white space before, after and inside it
BodyLines ==
    { LongBlankLine,
      <<"-", "-", "M", "E", "T", "A">>,
      <<" ">>,
      <<"-", "-", "S", "Q", "L", ":", "a">>,
      <<"-", "-", "S", "Q", "L", ":", " ", "b">>,
      <<"-", "-", "e", "n", "d">>,
      <<"-", "-", "c">>,
      <<" ", "x">>,
      <<"y", "\t">>,
      <<"x", " ", "y">> }

NextParse ==
    \/ \E raw \in BodyLines : ReadLine(raw)
    \/ ScanEOF

SpecParse == InitParse /\ [][NextParse]_vars

\* the lines of a file whose statement blocks repeat an ID
RepeatLines ==
    { <<"-", "-", "S", "Q", "L", ":", "a">>,
      <<"-", "-", "e", "n", "d">>,
      <<"x">> }

NextBlocks ==
    \/ \E raw \in RepeatLines : ReadBlockLine(raw)
    \/ ScanEOF

SpecBlocks == InitParse /\ [][NextBlocks]_vars

\* the lines of a file of directives: the three directives, lines that
\* begin like one, the directives in another case, statement-open
\* directives with and without an ID, a comment and a line of text
TokenLines ==
    { <<"-", "-", "S", "Q", "L", ":", "a">>,
      <<"-", "-", "S", "Q", "L", ":", " ", "b", " ">>,
      <<"-", "-", "S", "Q", "L", ":">>,
      <<"-", "-", "S", "Q", "L", ":", " ">>,
      <<"-", "-", "S", "Q", "L">>,
      <<"-", "-", "s", "q", "l", ":", "a">>,
      <<"-", "-", "M", "E", "T", "A">>,
      <<"-", "-", "M", "E", "T", "A", "D", "A", "T", "A">>,
      <<"-", "-", "e", "n", "d">>,
      <<"-", "-", "e", "n", "d", "p", "o", "i", "n", "t">>,
      <<"-", "-", "E", "N", "D">>,
      <<"-", "-", "c">>,
      <<"x">> }

NextToken ==
    \/ \E raw \in TokenLines : ReadLine(raw)
    \/ ScanEOF

SpecToken == InitParse /\ [][NextToken]_vars

\* ------------------------------------------------------------------------
\* Properties of the read API
\* ------------------------------------------------------------------------

HasSep(x) == \E i \in 1..Len(x) : x[i] = "."

\* the part of x before its first '.' and the part after it
LeftOf(x) == SubSeq(x, 1, (CHOOSE i \in 1..Len(x) : x[i] = "." /\ \A j \in 1..(i - 1) : x[j] # ".") - 1)

RightOf(x) == SubSeq(x, Len(LeftOf(x)) + 2, Len(x))

\* the outcome of a call: the text, or the kind of the error
Outcome(r) == <<r.q, r.err.nil, r.err.chain, r.err.msg>>

\* the last call was Get with one identifier
GotOne == last.op = "Get" /\ Len(last.ids) = 1

\* the last call was Get with one non-empty identifier without separator
GotPlain == GotOne /\ last.ids[1] # EmptyStr /\ ~HasSep(last.ids[1])

\* the last call was Get with two non-empty identifiers
GotTwo ==
    last.op = "Get" /\ Len(last.ids) = 2 /\ last.ids[1] # EmptyStr /\ last.ids[2] # EmptyStr

\* C1 as stated: for every identifier x that contains '.', Get(x) has the
\* outcome of Get(left, right), left the part of x before its first '.' and
\* right the part after it
C1_AnySplit ==
    (GotOne /\ HasSep(last.ids[1]))
        => Outcome(last) = Outcome(Get(sets, <<LeftOf(last.ids[1]), RightOf(last.ids[1])>>))

\* C1 amended: for every identifier x that contains '.' and whose parts
\* before and after the first '.' are both non-empty, Get(x) returns the text
\* and the error Get(left, right) returns
C1_SplitEquivalence ==
    (/\ GotOne
     /\ HasSep(last.ids[1])
     /\ LeftOf(last.ids[1]) # EmptyStr
     /\ RightOf(last.ids[1]) # EmptyStr)
        => LET r == Get(sets, <<LeftOf(last.ids[1]), RightOf(last.ids[1])>>)
           IN  last.q = r.q /\ last.err = r.err

\* Get("b.a") returned the text x of statement a of query set b
C1_Witness ==
    /\ GotOne
    /\ last.ids[1] = <<"b", ".", "a">>
    /\ last.err.nil
    /\ last.q = <<"x">>

\* C2 as stated: with exactly one query set c registered, Get(q) for a
\* non-empty q without separator has the outcome of Get(c.meta.ID, q), and
\* returns the text of q when q is a query of c
C2_SoleSet ==
    (GotPlain /\ Cardinality(DOMAIN sets) = 1)
        => LET c == sets[CHOOSE k \in DOMAIN sets : TRUE]
               q == last.ids[1]
           IN  /\ Outcome(last) = Outcome(Get(sets, <<c.meta.ID, q>>))
               /\ q \in DOMAIN c.queries => last.err.nil /\ last.q = c.queries[q]

\* C3 as stated: with two or more query sets registered, Get(q) for a
\* non-empty q without separator fails with ErrRequiredArgMissing and
\* returns no text
C3_Ambiguous ==
    (GotPlain /\ Cardinality(DOMAIN sets) >= 2)
        => /\ ~last.err.nil
           /\ ErrorIs(last.err, "ErrRequiredArgMissing")
           /\ last.q = EmptyStr

\* C4: with no query set registered, Get(q) for a non-empty q without
\* separator fails with ErrQuerySetsEmpty, an error of kind ErrEmpty
C4_EmptyRegistry ==
    (GotPlain /\ DOMAIN sets = {})
        => /\ ~last.err.nil
           /\ ErrorIs(last.err, "ErrQuerySetsEmpty")
           /\ ErrorIs(last.err, "ErrEmpty")
           /\ last.q = EmptyStr

\* Get("a") was called on the SQLSet of a tree without .sql file
C4_Witness ==
    /\ GotOne
    /\ last.ids[1] = <<"a">>
    /\ DOMAIN sets = {}
    /\ visited > 0

\* C5 as stated: for every registered query set c and non-empty s,
\* Get(c, s) returns the text of s when s is a query of c and fails with
\* ErrQueryNotFound otherwise
C5_TextOrQueryNotFound ==
    (GotTwo /\ last.ids[1] \in DOMAIN sets)
        => LET c == sets[last.ids[1]]
           IN  IF last.ids[2] \in DOMAIN c.queries
               THEN last.err.nil /\ last.q = c.queries[last.ids[2]]
               ELSE /\ ErrorIs(last.err, "ErrQueryNotFound")
                    /\ ~ErrorIs(last.err, "ErrQuerySetNotFound")

\* C5 amended: for every registered non-empty set ID c and non-empty s,
\* Get(c, s) returns the text of s when s is a query of c; otherwise it
\* fails with ErrQueryNotFound (kind ErrNotFound, not ErrQuerySetNotFound)
\* when c has at least one query, and with ErrQuerySetEmpty (kind ErrEmpty)
\* when c has no query
C5_TextOrNotFoundOrEmpty ==
    (GotTwo /\ last.ids[1] \in DOMAIN sets)
        => LET c == sets[last.ids[1]]
           IN  IF last.ids[2] \in DOMAIN c.queries
               THEN last.err.nil /\ last.q = c.queries[last.ids[2]]
               ELSE IF DOMAIN c.queries # {}
               THEN /\ ErrorIs(last.err, "ErrQueryNotFound")
                    /\ ErrorIs(last.err, "ErrNotFound")
                    /\ ~ErrorIs(last.err, "ErrQuerySetNotFound")
                    /\ last.q = EmptyStr
               ELSE /\ ErrorIs(last.err, "ErrQuerySetEmpty")
                    /\ ErrorIs(last.err, "ErrEmpty")
                    /\ ~ErrorIs(last.err, "ErrNotFound")
                    /\ last.q = EmptyStr

\* Get("a", "b") failed on a query set a that has the query a and not b
C5_Witness ==
    /\ GotTwo
    /\ last.ids = << <<"a">>, <<"b">> >>
    /\ <<"a">> \in DOMAIN sets
    /\ DOMAIN sets[<<"a">>].queries = {<<"a">>}
    /\ ~last.err.nil

\* the last call was GetQueryIDs with a non-empty set ID that is not
\* registered
ListedUnknown ==
    last.op = "GetQueryIDs" /\ last.ids[1] # EmptyStr /\ last.ids[1] \notin DOMAIN sets

\* C6 as stated: for every registry and every non-empty set ID c that is
\* not registered, Get(c, s) and GetQueryIDs(c) fail with
\* ErrQuerySetNotFound, and GetQueryIDs returns the nil slice
C6_UnknownSetAnyRegistry ==
    /\ (GotTwo /\ last.ids[1] \notin DOMAIN sets)
           => ErrorIs(last.err, "ErrQuerySetNotFound")
    /\ ListedUnknown
           => ErrorIs(last.err, "ErrQuerySetNotFound") /\ last.nil

\* C6 amended: for every non-empty set ID c that is not registered,
\* GetQueryIDs(c) fails with ErrQuerySetNotFound and returns the nil slice,
\* and Get(c, s) fails with ErrQuerySetNotFound when the registry has at
\* least one query set and with ErrQuerySetsEmpty (kind ErrEmpty) when it
\* has none
C6_UnknownSet ==
    /\ (GotTwo /\ last.ids[1] \notin DOMAIN sets)
           => /\ last.q = EmptyStr
              /\ IF DOMAIN sets # {}
                 THEN /\ ErrorIs(last.err, "ErrQuerySetNotFound")
                      /\ ErrorIs(last.err, "ErrNotFound")
                      /\ ~ErrorIs(last.err, "ErrQueryNotFound")
                 ELSE /\ ErrorIs(last.err, "ErrQuerySetsEmpty")
                      /\ ~ErrorIs(last.err, "ErrNotFound")
    /\ ListedUnknown
           => /\ ErrorIs(last.err, "ErrQuerySetNotFound")
              /\ ErrorIs(last.err, "ErrNotFound")
              /\ last.nil
              /\ last.list = <<>>

\* Get("b", "a") failed on a registry that has the query set a only
C6_Witness ==
    /\ GotTwo
    /\ last.ids = << <<"b">>, <<"a">> >>
    /\ DOMAIN sets = {<<"a">>}
    /\ ~last.err.nil

\* the positions of the empty identifiers of the last call
EmptyArgs == {i \in 1..Len(last.ids) : last.ids[i] = EmptyStr}

\* C7 as stated: Get with an argument list that contains an empty string
\* fails with ErrArgumentEmpty and the index of the first empty identifier,
\* whatever the length of the list
C7_ArgumentEmpty ==
    (last.op = "Get" /\ EmptyArgs # {})
        => /\ ~last.err.nil
           /\ ErrorIs(last.err, "ErrArgumentEmpty")
           /\ last.err.nums = <<(CHOOSE i \in EmptyArgs : \A j \in EmptyArgs : i <= j) - 1>>

\* C8 as stated: Get with no identifier, or with more than two identifiers
\* that are all non-empty, fails with ErrInvalidArgCount and returns no text
C8_InvalidArgCount ==
    (last.op = "Get" /\ EmptyArgs = {} /\ (Len(last.ids) = 0 \/ Len(last.ids) > 2))
        => /\ ~last.err.nil
           /\ ErrorIs(last.err, "ErrInvalidArgCount")
           /\ last.q = EmptyStr

\* C9: MustGet panics exactly when Get with the same arguments returns an
\* error, and panics with that error; otherwise it returns the text Get
\* returns; Get does not panic
C9_MustGetPanicsIffGetFails ==
    /\ last.op = "MustGet"
           => LET r == Get(sets, last.ids)
              IN  /\ last.panic <=> ~r.err.nil
                  /\ last.panic => last.err = r.err
                  /\ ~last.panic => last.q = r.q /\ last.err.nil
    /\ last.op = "Get" => ~last.panic

\* MustGet("a", "b") panicked with ErrQueryNotFound
C9_Witness ==
    /\ last.op = "MustGet"
    /\ last.ids = << <<"a">>, <<"b">> >>
    /\ last.panic
    /\ ErrorIs(last.err, "ErrQueryNotFound")

\* ------------------------------------------------------------------------
\* Properties of the block parser
\* ------------------------------------------------------------------------

\* the lines that are a statement-open or a metadata-open directive
OpenLines ==
    {raw \in Lines :
        \/ HasPrefix(TrimSpace(raw), <<"-", "-", "S", "Q", "L", ":">>)
        \/ HasPrefix(TrimSpace(raw), <<"-", "-", "M", "E", "T", "A">>)}

C12_LongLineFails ==
    [][\A raw \in Lines :
           (Len(raw) > maxCapacity /\ ScanLine(raw))
               => /\ pc' = "failed"
                  /\ ErrorIs(newErr', "ErrMaxLineLenExceeded")
                  /\ ~ErrorIs(newErr', "ErrInvalidSyntax")]_vars

C12_Witness ==
    /\ pc = "failed"
    /\ ErrorIs(newErr, "ErrMaxLineLenExceeded")
    /\ newErr.nums = <<3>>

\* the lines that are the directive token
DirectiveLines(token) == {raw \in Lines : ~scanTooLong(raw) /\ detectToken(TrimSpace(raw)).token = token}

EndLines == DirectiveLines(tokenEnd)

MetaOpenLines == DirectiveLines(tokenMeta)

\* C13: closing a metadata block, also one with an empty body, is
\* remembered for the rest of the source, and a metadata-open directive
\* read after it makes the construction fail with ErrInvalidSyntax
C13_OneMetaBlock ==
    [][/\ \A raw \in EndLines :
              (ps.openedToken.open /\ ps.openedToken.Type = tokenMeta /\ ScanLine(raw))
                  => (pc' = "scan" /\ ~ps'.metaBuf.nil)
       /\ (pc = "scan" /\ pc' = "scan" /\ ~ps.metaBuf.nil) => ~ps'.metaBuf.nil
       /\ \A raw \in MetaOpenLines :
              (~ps.metaBuf.nil /\ ScanLine(raw))
                  => (pc' = "failed" /\ ErrorIs(newErr', "ErrInvalidSyntax"))]_vars

\* the second metadata-open directive is line 3, after an empty block
C13_Witness ==
    /\ pc = "failed"
    /\ ErrorIs(newErr, "ErrInvalidSyntax")
    /\ newErr.msg = "unexpected multiple metadata"
    /\ newErr.nums = <<3>>

\* New returns nil and an error of the kinds of err that names the file
\* being parsed
Aborted(err) ==
    /\ pc' = "failed"
    /\ sets' = EmptyMap
    /\ ~newErr'.nil
    /\ newErr'.chain = err.chain
    /\ newErr'.path = path
    /\ path # EmptyStr

\* C14: when the parse of one file fails, in a line or at the end of the
\* input, New returns no SQLSet, whatever was registered before, and its
\* error keeps the kinds of the error of parse and names the file; a
\* failed construction stays failed
C14_AllOrNothing ==
    [][/\ \A raw \in Lines :
              (ScanLine(raw) /\ ~parseLine(ps, raw).err.nil)
                  => Aborted(parseLine(ps, raw).err)
       /\ (ScanEOF /\ ~parseEnd(setID, ps).err.nil) => Aborted(parseEnd(setID, ps).err)
       /\ pc = "failed" => pc' = "failed"
       /\ pc' = "ready" => newErr'.nil]_vars

\* the second file fails in its first line after the first file, of
\* three lines, was registered
C14_Witness ==
    /\ pc = "failed"
    /\ visited = 2
    /\ scanned = 4
    /\ newErr.nums = <<1>>
    /\ ErrorIs(newErr, "ErrMaxLineLenExceeded")
    /\ newErr.path \in Names

\* C15: in the SQLSet New returned, every key maps to a query set whose
\* meta.ID is the key, also when the metadata block replaced the ID derived
\* from the file name, and GetSetsMetas returns one metadata record for
\* each key, the one of the query set registered under it
C15_KeyIsMetaID ==
    pc = "ready" =>
        /\ \A k \in DOMAIN sets : sets[k].meta.ID = k
        /\ last.op = "GetSetsMetas" =>
               /\ Len(last.list) = Cardinality(DOMAIN sets)
               /\ {last.list[i].ID : i \in 1..Len(last.list)} = DOMAIN sets
               /\ \A i \in 1..Len(last.list) :
                      \A k \in DOMAIN sets :
                          last.list[i].ID = k => last.list[i] = sets[k].meta

\* two query sets, one of them registered under the ID "b" of its metadata
\* block and not under the ID "a" of its file name
C15_Witness ==
    /\ pc = "ready"
    /\ last.op = "GetSetsMetas"
    /\ Cardinality(DOMAIN sets) = 2
    /\ <<"b">> \in DOMAIN sets
    /\ sets[<<"b">>].meta.Name = <<"a">>

\* the value a field of the metadata takes from the member of the payload,
\* with the value it has without one
FieldOr(member, default) ==
    IF member # Absent /\ member[1] # EmptyStr THEN member[1] ELSE default

\* the text of a closed block without its line endings
BodyText(data) == SelectSeq(data, LAMBDA c : c # "\r" /\ c # "\n")

Decodable(data) ==
    \E id \in MetaIDs, name \in MetaNames, description \in MetaDescriptions :
        BodyText(data) = JsonMeta(id, name, description)

\* C17: when the input ends with every block closed and the body of the
\* metadata block is no payload (it is empty, or no JSON object), the
\* construction fails with ErrInvalidSyntax and with no other kind, and no
\* query set is registered
C17_UndecodableMeta ==
    [][(/\ ~ps.openedToken.open
        /\ ~ps.metaBuf.nil
        /\ ~Decodable(ps.metaBuf.data)
        /\ ScanEOF)
          => /\ pc' = "failed"
             /\ newErr'.chain = <<"ErrInvalidSyntax">>
             /\ sets' = EmptyMap]_vars

\* the file is a metadata block with an empty body
C17_Witness ==
    /\ pc = "failed"
    /\ ErrorIs(newErr, "ErrInvalidSyntax")
    /\ newErr.msg = "json"
    /\ scanned = 2

\* what a line of a source is: "blank", "sql", "meta", "end", "comment" or
\* "content"
LineKind(raw) ==
    LET t == TrimSpace(raw)
    IN  IF t = EmptyStr THEN "blank"
        ELSE IF ~HasPrefix(t, <<"-", "-">>) THEN "content"
        ELSE IF HasPrefix(t, <<"-", "-", "S", "Q", "L", ":">>) THEN "sql"
        ELSE IF HasPrefix(t, <<"-", "-", "M", "E", "T", "A">>) THEN "meta"
        ELSE IF HasPrefix(t, <<"-", "-", "e", "n", "d">>) THEN "end"
        ELSE "comment"

\* the statement ID of a statement-open directive
LineKey(raw) == TrimSpace(SubSeq(TrimSpace(raw), 7, Len(TrimSpace(raw))))

\* the statement blocks of the lines read so far: <<i, j>> when line i
\* opens the block and line j closes it
ClosedBlocks ==
    {b \in (1..Len(src)) \X (1..Len(src)) :
        /\ b[1] < b[2]
        /\ LineKind(src[b[1]]) = "sql"
        /\ LineKind(src[b[2]]) = "end"
        /\ \A m \in (b[1] + 1)..(b[2] - 1) : LineKind(src[m]) \notin {"sql", "meta", "end"}}

\* the last of the closed blocks of each statement ID
LastBlocks ==
    {b \in ClosedBlocks :
        \A c \in ClosedBlocks : LineKey(src[c[1]]) = LineKey(src[b[1]]) => c[1] <= b[1]}

\* the lines, each after a "\r\n" but the first
RECURSIVE JoinLines(_)
JoinLines(lines) ==
    IF Len(lines) = 0 THEN EmptyStr
    ELSE IF Len(lines) = 1 THEN lines[1]
    ELSE lines[1] \o <<"\r", "\n">> \o JoinLines(Tail(lines))

\* the content lines of the block b, as they are in the source
BlockLines(b) ==
    SelectSeq(SubSeq(src, b[1] + 1, b[2] - 1), LAMBDA raw : LineKind(raw) = "content")

\* the content lines of the block b without the white space around each
RECURSIVE TrimLines(_)
TrimLines(lines) ==
    IF Len(lines) = 0 THEN <<>> ELSE <<TrimSpace(lines[1])>> \o TrimLines(Tail(lines))

\* the statements parse has registered, during the parse and after it
Committed ==
    IF pc = "scan" THEN ps.qs.queries
    ELSE IF pc = "walk" /\ DOMAIN sets # {} THEN sets[CHOOSE k \in DOMAIN sets : TRUE].queries
    ELSE EmptyMap

C19_SortedQueryIDs ==
    (pc = "ready" /\ last.op = "GetQueryIDs" /\ last.ids[1] \in DOMAIN sets) =>
        /\ last.err.nil
        /\ ~last.nil
        /\ {last.list[i] : i \in 1..Len(last.list)} = DOMAIN sets[last.ids[1]].queries
        /\ Len(last.list) = Cardinality(DOMAIN sets[last.ids[1]].queries)
        /\ \A i, j \in 1..Len(last.list) : i < j => StrLess(last.list[i], last.list[j])

\* the IDs of a query set of two statements
C19_Witness ==
    /\ pc = "ready"
    /\ last.op = "GetQueryIDs"
    /\ last.list = << <<"a">>, <<"b">> >>

\* the list of a query set without statements
C19_WitnessEmpty ==
    /\ pc = "ready"
    /\ last.op = "GetQueryIDs"
    /\ last.ids[1] \in DOMAIN sets
    /\ last.list = <<>>
    /\ ~last.nil

C21_CloseWithoutOpen ==
    [][\A raw \in EndLines :
           (~ps.openedToken.open /\ ScanLine(raw))
               => (pc' = "failed" /\ ErrorIs(newErr', "ErrInvalidSyntax"))]_vars

\* the block-close is line 3 of the file, after a block or after lines
\* that are skipped
C21_Witness ==
    /\ pc = "failed"
    /\ ErrorIs(newErr, "ErrInvalidSyntax")
    /\ newErr.msg = "unexpected end token"
    /\ newErr.nums = <<3>>

\* the line is one the parser skips: a blank line or a plain comment, or
\* text while no block is open; anyLength counts the lines the scanner
\* refuses for their length too
NoOpLine(raw, open, anyLength) ==
    /\ anyLength \/ Len(raw) < maxCapacity
    /\ \/ LineKind(raw) \in {"blank", "comment"}
       \/ LineKind(raw) = "content" /\ ~open

\* the lines without the lines the parser skips; open: a block is open
\* before the first of the lines
RECURSIVE StripNoOps(_, _, _)
StripNoOps(lines, open, anyLength) ==
    IF Len(lines) = 0 THEN <<>>
    ELSE LET raw == lines[1]
             kind == LineKind(raw)
             opens == IF kind \in {"sql", "meta"} THEN TRUE
                      ELSE IF kind = "end" THEN FALSE
                      ELSE open
         IN  (IF NoOpLine(raw, open, anyLength) THEN <<>> ELSE <<raw>>)
             \o StripNoOps(Tail(lines), opens, anyLength)

\* what the parse of the lines read so far has come to: the open block,
\* the stashed metadata and the statements while it runs, the registered
\* query set after it, the kinds and the message of its error
ParseOutcome ==
    IF pc = "scan" THEN <<"scan", ps.openedToken, ps.metaBuf, ps.qs>>
    ELSE IF pc = "walk" THEN <<"walk", sets>>
    ELSE <<"failed", newErr.chain, newErr.msg, newErr.item>>

\* what the parse of the lines comes to when it has come as far as the
\* parse of the lines read so far
OutcomeOf(lines) ==
    LET r == parseLines(ParseStart, lines)
    IN  IF pc = "scan" THEN <<"scan", r.openedToken, r.metaBuf, r.qs>>
        ELSE IF pc = "walk"
        THEN <<"walk", [k \in DOMAIN sets |-> parseEnd(k, r).qs]>>
        ELSE LET err == IF ~r.err.nil THEN r.err ELSE parseEnd(EmptyStr, r).err
             IN  <<"failed", err.chain, err.msg, err.item>>

SyntaxError == pc' = "failed" /\ ErrorIs(newErr', "ErrInvalidSyntax")

\* C23: a line that begins with the marker acts by the text after the
\* marker, compared with its case: with the prefix "SQL:" it opens a
\* statement block (an error when it has no ID), else with the prefix
\* "META" it opens the metadata block, else with the prefix "end" it
\* closes the open block, else it is a comment and changes nothing; so
\* "--endpoint" closes a block and "--METADATA" opens the metadata block
C23_PrefixClassification ==
    [][\A raw \in TokenLines :
           ReadLine(raw) =>
               LET kind == LineKind(raw)
                   open == ps.openedToken.open
               IN  /\ kind = "sql" =>
                          IF LineKey(raw) = EmptyStr \/ open THEN SyntaxError
                          ELSE pc' = "scan" /\ ps'.openedToken = OpenToken(tokenSQL, LineKey(raw))
                   /\ kind = "meta" =>
                          IF open \/ ~ps.metaBuf.nil THEN SyntaxError
                          ELSE pc' = "scan" /\ ps'.openedToken = OpenToken(tokenMeta, EmptyStr)
                   /\ kind = "end" =>
                          IF ~open THEN SyntaxError
                          ELSE pc' = "scan" /\ ~ps'.openedToken.open
                   /\ kind = "comment" =>
                          pc' = "scan" /\ ps' = [ps EXCEPT !.lineN = ps.lineN + 1]]_vars

\* the file "--SQL:a", "x", "--endpoint": the third line has closed the
\* block and registered the statement
C23_Witness ==
    /\ pc = "scan"
    /\ src = << <<"-", "-", "S", "Q", "L", ":", "a">>, <<"x">>,
               <<"-", "-", "e", "n", "d", "p", "o", "i", "n", "t">> >>
    /\ ~ps.openedToken.open
    /\ <<"a">> \in DOMAIN ps.qs.queries
    /\ ps.qs.queries[<<"a">>] = <<"x">>

\* the file whose only line is "--METADATA": the metadata block is open
C23_WitnessMeta ==
    /\ pc = "scan"
    /\ src = << <<"-", "-", "M", "E", "T", "A", "D", "A", "T", "A">> >>
    /\ ps.openedToken.open
    /\ ps.openedToken.Type = tokenMeta

\* C24: a file whose parse succeeds is registered, also when its meta.ID
\* is the key of a query set registered before; after it the key holds
\* the query set of that file, its metadata and its statements and no
\* others, and the other keys hold what they held
C24_LastRegisteredWins ==
    [][(ScanEOF /\ parseEnd(setID, ps).err.nil) =>
          LET qs == parseEnd(setID, ps).qs
          IN  /\ pc' = "walk"
              /\ DOMAIN sets' = DOMAIN sets \cup {qs.meta.ID}
              /\ sets'[qs.meta.ID] = qs
              /\ \A k \in DOMAIN sets \ {qs.meta.ID} : sets'[k] = sets[k]]_vars

\* two files were registered one after the other under the key "a"; the
\* key holds the one statement "b" of the file registered last
C24_Witness ==
    /\ pc = "walk"
    /\ registered = << <<"a">>, <<"a">> >>
    /\ scanned = 4
    /\ DOMAIN sets = {<<"a">>}
    /\ DOMAIN sets[<<"a">>].queries = {<<"b">>}

\* the statement IDs of the query set are not empty and have no white
\* space before or after them
ProperIDs(qs) == \A id \in DOMAIN qs.queries : id # EmptyStr /\ TrimSpace(id) = id

\* the statement-open directives without an ID
NoKeyLines == {raw \in TokenLines : LineKind(raw) = "sql" /\ LineKey(raw) = EmptyStr}

\* C25: a statement-open directive whose ID is empty or white space only
\* makes the construction fail with ErrInvalidSyntax, with a block open
\* and with none; every statement ID the parse holds, and every one of a
\* registered query set, is not empty and has no white space around it
C25_StatementIDs ==
    [][/\ \A raw \in NoKeyLines : ReadLine(raw) => SyntaxError
       /\ ProperIDs(ps'.qs)
       /\ \A k \in DOMAIN sets' : ProperIDs(sets'[k])]_vars

\* the directive "--SQL: ", read while the block of "a" is open
C25_Witness ==
    /\ pc = "failed"
    /\ src = << <<"-", "-", "S", "Q", "L", ":", "a">>, <<"-", "-", "S", "Q", "L", ":", " ">> >>
    /\ ErrorIs(newErr, "ErrInvalidSyntax")
    /\ newErr.msg = "no SQL set query key given"

\* the directive "--SQL: b " has registered the statement "b"
C25_WitnessTrimmed ==
    /\ pc = "walk"
    /\ src = << <<"-", "-", "S", "Q", "L", ":", " ", "b", " ">>, <<"-", "-", "e", "n", "d">> >>
    /\ \E k \in DOMAIN sets : DOMAIN sets[k].queries = {<<"b">>}

\* C26: every key of the SQLSet New returned is a non-empty string
C26_NonEmptySetIDs ==
    pc = "ready" => \A k \in DOMAIN sets : k # EmptyStr

\* the lines are blocks one after the other: "idle" when the last is
\* closed, "open" when it is not, "bad" when a block opens in a block or
\* closes with none open
RECURSIVE BlockStructure(_, _)
BlockStructure(lines, open) ==
    IF Len(lines) = 0 THEN (IF open THEN "open" ELSE "idle")
    ELSE LET kind == LineKind(lines[1])
         IN  IF kind \in {"sql", "meta"}
             THEN (IF open THEN "bad" ELSE BlockStructure(Tail(lines), TRUE))
             ELSE IF kind = "end"
             THEN (IF open THEN BlockStructure(Tail(lines), FALSE) ELSE "bad")
             ELSE BlockStructure(Tail(lines), open)

\* the closed statement blocks of the ID
BlocksOf(id) == {b \in ClosedBlocks : LineKey(src[b[1]]) = id}

\* C27: a source of closed statement blocks, of which two or more may
\* have the same ID, parses without an error; an ID holds the body of the
\* block of that ID closed last, and GetQueryIDs of the registered query
\* set lists every ID once
C27_LastBlockWins ==
    /\ pc = "failed" => BlockStructure(src, FALSE) # "idle"
    /\ pc \in {"scan", "walk"} =>
           \A b \in ClosedBlocks :
               LET id == LineKey(src[b[1]])
               IN  /\ id \in DOMAIN Committed
                   /\ (\A c \in BlocksOf(id) : c[1] <= b[1])
                          => Committed[id] = JoinLines(TrimLines(BlockLines(b)))
    /\ pc = "walk" =>
           \A k \in DOMAIN sets :
               LET r == GetQueryIDs(sets, k)
               IN  /\ r.err.nil
                   /\ {r.ids[i] : i \in 1..Len(r.ids)} = {LineKey(src[b[1]]) : b \in ClosedBlocks}
                   /\ \A i, j \in 1..Len(r.ids) : r.ids[i] = r.ids[j] => i = j

\* two blocks of the ID "a", the first with the body "x", the second with
\* an empty body: the parse has registered the empty text
C27_Witness ==
    /\ pc = "walk"
    /\ src = << <<"-", "-", "S", "Q", "L", ":", "a">>, <<"x">>, <<"-", "-", "e", "n", "d">>,
               <<"-", "-", "S", "Q", "L", ":", "a">>, <<"-", "-", "e", "n", "d">> >>
    /\ Committed[<<"a">>] = EmptyStr
====
